---- MODULE Spec2Model ----
(***************************************************************************)
(* A model of @alcyone-labs/simple-logger: the level ordering (utils.ts),  *)
(* the three built-in transports (transports.ts), and the singleton        *)
(* dispatcher with its scope factory (index.ts).                           *)
(*                                                                         *)
(* JavaScript runs one call at a time, so every public operation is one    *)
(* atomic action.  What a call did (its return value, the transport        *)
(* methods it invoked, the console / fetch / backend calls it caused,      *)
(* whether it threw) is recorded in the variable last, the way the test    *)
(* suite's spies record it.                                                *)
(***************************************************************************)
EXTENDS Integers, Sequences, FiniteSets, TLC

VARIABLES
    transports,   \* LoggerSingleton.transports: null, or the array of transport objects
    handles,      \* the scoped handles made so far, with the metadata object each closes over
    safeConsole,  \* the console probed when transports.ts loaded: the set of methods it has
    globalConsole,\* what the global console is now
    callerArray,  \* an array of transports the caller keeps and passes to configureLogger
    journal,      \* the logging calls a recorder has observed since it was started
    last          \* the last call made by the caller and everything observed of it

vars == <<transports, handles, safeConsole, globalConsole, callerArray, journal, last>>

----------------------------------------------------------------------------
(* Bounds of the model *)

MaxTransports == 2    \* longest transport list
MaxHandles == 1       \* scoped handles alive at once

----------------------------------------------------------------------------
(* Values *)

UNDEF == "undefined"        \* an absent transport level
Root == 0                   \* the exported singleton `logger`

TLogLevel == {"debug", "info", "warn", "error"}

\* utils.ts: const LEVELS
LEVELS == [l \in TLogLevel |->
             CASE l = "debug" -> 0
               [] l = "info"  -> 1
               [] l = "warn"  -> 2
               [] l = "error" -> 3]

\* shouldLog with a strict comparison
shouldLogStrict(transportLevel, messageLevel) ==
    LET tLevel == IF transportLevel = UNDEF THEN "info" ELSE transportLevel
    IN  LEVELS[messageLevel] > LEVELS[tLevel]

\* utils.ts: shouldLog(transportLevel, messageLevel)
shouldLog(transportLevel, messageLevel) ==
    LET tLevel == IF transportLevel = UNDEF THEN "info" ELSE transportLevel
        tVal == LEVELS[tLevel]
        mVal == LEVELS[messageLevel]
    IN  mVal >= tVal

----------------------------------------------------------------------------
(* Metadata mappings.  A metadata value is a scalar or itself a mapping    *)
(* (one level of nesting is what the shallow merge can be observed on).    *)

MetaKeys == {"a", "user"}
SubKeys == {"id", "name"}

NoFields == [k \in {} |-> 0]
Scalar(n) == [kind |-> "scalar", scalar |-> n, fields |-> NoFields]
Mapping(f) == [kind |-> "mapping", scalar |-> 0, fields |-> f]

UserA == Mapping([k \in {"id", "name"} |-> 1])     \* {id: 1, name: "A"}
User2 == Mapping([k \in {"id"} |-> 2])             \* {id: 2}
\* the values a caller gives each key: a: 1, user: one of the two mappings
MetaValues(k) == IF k = "a" THEN {Scalar(1)} ELSE {UserA, User2}

EmptyMeta == [k \in {} |-> Scalar(0)]
Metas == UNION {{m \in [D -> {Scalar(1), UserA, User2}] : \A k \in D : m[k] \in MetaValues(k)} :
                D \in SUBSET MetaKeys}

\* object spread {...a, ...b}: the keys of both, b's value where both have the key
Spread(a, b) ==
    [k \in (DOMAIN a) \cup (DOMAIN b) |-> IF k \in DOMAIN b THEN b[k] ELSE a[k]]

\* an optional metadata argument: absent, or the caller's object with its contents
Absent == [given |-> FALSE, obj |-> EmptyMeta]
Given(m) == [given |-> TRUE, obj |-> m]

----------------------------------------------------------------------------
(* Log events (types.ts: TLog).  data is the open mapping: its reserved    *)
(* metadata key (present or not), its other fields, and whether it holds a *)
(* reference cycle (which JSON.stringify cannot serialise).                *)

NoRest == [k \in {} |-> 0]
SomeData == [k \in {"some"} |-> 1]                 \* {some: "data"}

\* a data that is a mapping
TLogData(hasMetadata, metadata, rest, circular) ==
    [type |-> "mapping", hasMetadata |-> hasMetadata, metadata |-> metadata,
     metadataIs |-> "mapping", rest |-> rest, circular |-> circular]
\* a data mapping whose metadata key holds something that is not a mapping
\* (a string, an array)
TLogDataBadMetadata(metadataIs, rest) ==
    [type |-> "mapping", hasMetadata |-> TRUE, metadata |-> EmptyMeta,
     metadataIs |-> metadataIs, rest |-> rest, circular |-> FALSE]
\* a data that is absent or is a number: it has no key to read or to spread
NonMappingData(type) ==
    [type |-> type, hasMetadata |-> FALSE, metadata |-> EmptyMeta,
     metadataIs |-> "mapping", rest |-> NoRest, circular |-> FALSE]
DataTypes == {"mapping", "undefined", "number"}
\* the types of the values a candidate for the schema is made of
ValueTypes == {"mapping", "undefined", "number", "string", "array"}

\* message values that are not strings: an absent message and the number 123
NoMessage == "(undefined)"
NumberMessage == "(number 123)"
IsString(message) == message \notin {NoMessage, NumberMessage}

\* the top-level fields an event carries besides message and data (the
\* type allows none, a caller can pass some): its own level, its own
\* timestamp, a trace id
ExtraKeys == {"level", "timestamp", "traceId"}
ExtraValue(k) == CASE k = "level" -> "error"
                   [] k = "timestamp" -> "1970-01-01T00:00:00.000Z"
                   [] OTHER -> "t-1"
NoExtra == [k \in {} |-> ""]
Extras == {[k \in D |-> ExtraValue(k)] : D \in SUBSET ExtraKeys}

TLogWith(message, data, extra) == [message |-> message, data |-> data, extra |-> extra]
TLog(message, data) == TLogWith(message, data, NoExtra)

\* zod: z.string() and z.record(z.string(), z.any()) accept a value
zString(message) == IsString(message)
zRecord(type) == type = "mapping"

\* a schema that does not look at data.metadata
logMessageSchemaAnyMetadata(candidate) ==
    /\ zString(candidate.message)
    /\ zRecord(candidate.data.type)

\* types.ts: logMessageSchema accepts the candidate; an object schema
\* ignores the keys it does not name
logMessageSchema(candidate) ==
    /\ zString(candidate.message)                    \* message: z.string()
    /\ /\ candidate.data.type = "mapping"            \* data: z.object({
       /\ candidate.data.hasMetadata =>              \*   metadata: z.record(...).optional() })
             zRecord(candidate.data.metadataIs)
    /\ zRecord(candidate.data.type)                  \* .and(z.record(z.string(), z.any()))

\* mergeMetadata building data from the metadata alone, without ...data.data
mergeMetadataDropsRest(data, metadata) ==
    [message |-> data.message,
     extra |-> data.extra,
     data |-> [type |-> "mapping",
               rest |-> NoRest,
               circular |-> FALSE,
               hasMetadata |-> TRUE, metadataIs |-> "mapping",
               metadata |-> Spread(IF data.data.hasMetadata
                                     THEN data.data.metadata
                                     ELSE EmptyMeta,
                                   metadata)]]

\* mergeMetadata with the spreads in the other order: the event's keys win
mergeMetadataEventWins(data, metadata) ==
    [message |-> data.message,
     extra |-> data.extra,
     data |-> [type |-> "mapping",
               rest |-> data.data.rest,
               circular |-> data.data.circular,
               hasMetadata |-> TRUE, metadataIs |-> "mapping",
               metadata |-> Spread(metadata,
                                   IF data.data.hasMetadata
                                     THEN data.data.metadata
                                     ELSE EmptyMeta)]]

\* mergeMetadata merging nested mappings field by field
mergeMetadataDeep(data, metadata) ==
    LET own == IF data.data.hasMetadata THEN data.data.metadata ELSE EmptyMeta
        deep(k) == IF /\ k \in DOMAIN own /\ k \in DOMAIN metadata
                      /\ own[k].kind = "mapping" /\ metadata[k].kind = "mapping"
                     THEN Mapping(Spread(own[k].fields, metadata[k].fields))
                     ELSE Spread(own, metadata)[k]
    IN  [message |-> data.message,
         extra |-> data.extra,
         data |-> [type |-> "mapping",
                   rest |-> data.data.rest,
                   circular |-> data.data.circular,
                   hasMetadata |-> TRUE, metadataIs |-> "mapping",
                   metadata |-> [k \in (DOMAIN own) \cup (DOMAIN metadata) |-> deep(k)]]]

\* index.ts: LoggerSingleton.mergeMetadata(data, metadata)
mergeMetadata(data, metadata) ==
    [message |-> data.message,                               \* ...data
     extra |-> data.extra,
     data |-> [type |-> "mapping",                           \* data: { ... }
               rest |-> data.data.rest,                      \* ...data.data
               circular |-> data.data.circular,
               hasMetadata |-> TRUE, metadataIs |-> "mapping",                         \* metadata: { ... }
               metadata |-> Spread(IF data.data.hasMetadata  \* data.data?.metadata || {}
                                     THEN data.data.metadata
                                     ELSE EmptyMeta,
                                   metadata)]]

\* a merge that assigns the merged metadata into the caller's event
argumentsAfterMergeInPlace(data, metadata) ==
    [data |-> [data EXCEPT !.data.hasMetadata = TRUE,
                           !.data.metadataIs = "mapping",
                           !.data.metadata = Spread(IF data.data.hasMetadata
                                                      THEN data.data.metadata
                                                      ELSE EmptyMeta,
                                                    metadata)],
     metadata |-> metadata]

\* index.ts mergeMetadata: what its two arguments hold when it returns; it
\* only spreads them into new object literals and assigns to neither
argumentsAfterMerge(data, metadata) == [data |-> data, metadata |-> metadata]

----------------------------------------------------------------------------
(* Transport objects (types.ts: ITransport).  madeBy tells the default     *)
(* console sink the dispatcher creates from the ones the caller creates;   *)
(* throws marks a caller-supplied transport whose methods raise; backend   *)
(* is the set of methods the object wrapped by a pino bridge has; reenters *)
(* marks a caller-supplied transport whose methods call addTransport or    *)
(* configureLogger; headers is the mapping a RemoteTransport was given.    *)

\* header names a caller gives (names that differ in case are different
\* keys of the object) and the value the caller gives each
HeaderKeys == {"Content-Type", "content-type", "Authorization"}
HeaderValue(k) == IF k = "Authorization" THEN "Bearer token" ELSE "text/plain"
NoHeaders == [k \in {} |-> ""]
HeaderSets == {[k \in D |-> HeaderValue(k)] : D \in SUBSET HeaderKeys}

Transport(kind, level, url, throws, madeBy) ==
    [kind |-> kind, level |-> level, url |-> url, throws |-> throws, madeBy |-> madeBy,
     backend |-> TLogLevel, reenters |-> "no", headers |-> NoHeaders]

\* transports.ts: the constructors; an omitted level defaults to "info"
ConsoleTransport(level) == Transport("console", level, "", FALSE, "caller")
RemoteTransport(url, level) == Transport("remote", level, url, FALSE, "caller")
\* new RemoteTransport(url, level, headers)
RemoteTransportWith(url, level, headers) ==
    [RemoteTransport(url, level) EXCEPT !.headers = headers]
PinoBridgeTransport(level) == Transport("pino", level, "", FALSE, "caller")
\* a bridge to a backend object that has only some of the four methods
PinoBridgeOn(backend, level) == [PinoBridgeTransport(level) EXCEPT !.backend = backend]
\* an object literal implementing ITransport, as in the tests and examples
CustomTransport(level, throws) == Transport("custom", level, "", throws, "caller")
\* index.ts getTransports: new ConsoleTransport("info")
DefaultConsole == Transport("console", "info", "", FALSE, "logger")
\* a caller-supplied transport whose methods call addTransport(Spy) ("add")
\* or configureLogger({transports: [Spy]}) ("configure")
Spy == CustomTransport(UNDEF, FALSE)
ReentrantTransport(calls) == [Spy EXCEPT !.reenters = calls]

LogUrl == "https://api.logs.com"

\* the host's fetch: it resolves, it fails (it throws, or the promise it
\* returns rejects), or the host has no fetch at all
FetchImpls == {"resolves", "fails", "missing"}
\* and a fetch whose promise never settles
Pending == "pending"

\* what one transport method call did
Effect(out, threw, rejected) == [out |-> out, threw |-> threw, rejected |-> rejected]

\* a console sink that passes the event's data, not the event, as second
\* argument
ConsoleMethodDataOnly(t, method, data, console) ==
    IF shouldLog(t.level, method) /\ method \in console
      THEN Effect(<<[sink |-> "console", method |-> method, by |-> t,
                     first |-> data.message, second |-> data.data]>>, FALSE, FALSE)
      ELSE Effect(<<>>, FALSE, FALSE)

\* a console sink that calls the console method without testing that the
\* console has it
ConsoleMethodNoProbe(t, method, data, console) ==
    IF shouldLog(t.level, method)
      THEN IF method \in console
             THEN Effect(<<[sink |-> "console", method |-> method, by |-> t,
                            first |-> data.message, second |-> data]>>, FALSE, FALSE)
             ELSE Effect(<<>>, TRUE, FALSE)
      ELSE Effect(<<>>, FALSE, FALSE)

\* a console sink that does not consult its threshold
ConsoleMethodNoFilter(t, method, data, console) ==
    IF method \in console
      THEN Effect(<<[sink |-> "console", method |-> method, by |-> t,
                     first |-> data.message, second |-> data]>>, FALSE, FALSE)
      ELSE Effect(<<>>, FALSE, FALSE)

\* transports.ts: ConsoleTransport.info/debug/warn/error
ConsoleMethod(t, method, data, console) ==
    IF shouldLog(t.level, method) /\ method \in console
      THEN Effect(<<[sink |-> "console", method |-> method, by |-> t,
                     first |-> data.message, second |-> data]>>, FALSE, FALSE)
      ELSE Effect(<<>>, FALSE, FALSE)

\* transports.ts: RemoteTransport.send.  The body of the try block fails when
\* fetch is not defined, when JSON.stringify throws, or when fetch throws or
\* the awaited promise rejects; fetch is called unless one of the first two
\* happens.
sendFails(data, fetchImpl) ==
    \/ fetchImpl = "missing"
    \/ data.data.circular
    \/ fetchImpl = "fails"

\* the instant new Date() gives when send runs
Now == "now"

\* transports.ts send: the object given to JSON.stringify,
\* {level, ...data, timestamp: new Date().toISOString()}: a later key
\* replaces an earlier one of the same name; others are the fields the body
\* has besides level, message, data and timestamp
PostBody(level, data) ==
    [level |-> IF "level" \in DOMAIN data.extra THEN data.extra["level"] ELSE level,
     message |-> data.message,
     data |-> data.data,
     timestamp |-> Now,
     others |-> [k \in (DOMAIN data.extra) \ {"level", "timestamp"} |-> data.extra[k]]]

\* headers merged the other way round: the default wins over the caller's
\* value
RequestHeadersDefaultWins(t) ==
    Spread(t.headers, [k \in {"Content-Type"} |-> "application/json"])

\* transports.ts send: the headers given to fetch,
\* { "Content-Type": "application/json", ...this.headers }
RequestHeaders(t) ==
    Spread([k \in {"Content-Type"} |-> "application/json"], t.headers)

\* a send that leaves the request to a timer instead of issuing it
sendIssuedLater(t, level, data, fetchImpl) == Effect(<<>>, FALSE, FALSE)

\* a send that returns only when the request has completed
sendAwaited(t, level, data, fetchImpl) ==
    Effect(IF fetchImpl # "missing" /\ ~data.data.circular
             THEN <<[sink |-> "fetch", method |-> "POST", by |-> t, first |-> t.url,
                     headers |-> RequestHeaders(t),
                     second |-> PostBody(level, data),
                     settled |-> TRUE]>>
             ELSE <<>>,
           FALSE, FALSE)

\* a send that issues the request a second time when the first fails
sendRetry(t, level, data, fetchImpl) ==
    LET post == [sink |-> "fetch", method |-> "POST", by |-> t, first |-> t.url,
                 headers |-> RequestHeaders(t),
                 second |-> PostBody(level, data),
                 settled |-> FALSE]
    IN  Effect(IF fetchImpl # "missing" /\ ~data.data.circular
                 THEN IF fetchImpl = "fails" THEN <<post, post>> ELSE <<post>>
                 ELSE <<>>,
               FALSE, FALSE)

\* send without its try / catch: a failure rejects the promise nobody awaits
sendNoCatch(t, level, data, fetchImpl) ==
    Effect(IF fetchImpl # "missing" /\ ~data.data.circular
             THEN <<[sink |-> "fetch", method |-> "POST", by |-> t, first |-> t.url,
                     headers |-> RequestHeaders(t),
                     second |-> PostBody(level, data),
                     settled |-> FALSE]>>
             ELSE <<>>,
           FALSE,
           sendFails(data, fetchImpl))

send(t, level, data, fetchImpl) ==
    LET issued == fetchImpl # "missing" /\ ~data.data.circular   \* fetch was called
        body == PostBody(level, data)
        caught == TRUE                                  \* catch { /* safe fail */ }
    IN  Effect(IF issued
                 THEN <<[sink |-> "fetch", method |-> "POST", by |-> t,
                         first |-> t.url, headers |-> RequestHeaders(t),
                         second |-> body,
                         settled |-> FALSE]>>             \* await: send resumes later
                 ELSE <<>>,
               FALSE,                                   \* async: nothing is thrown to the caller
               sendFails(data, fetchImpl) /\ ~caught)   \* the promise send returns rejects

\* transports.ts: RemoteTransport.info/debug/warn/error
RemoteMethod(t, method, data, fetchImpl) ==
    IF shouldLog(t.level, method)
      THEN send(t, method, data, fetchImpl)
      ELSE Effect(<<>>, FALSE, FALSE)

\* a bridge that does not consult its threshold
PinoMethodNoFilter(t, method, data) ==
    IF method \in t.backend
      THEN Effect(<<[sink |-> "pino", method |-> method, by |-> t,
                     first |-> data, second |-> data.message]>>, FALSE, FALSE)
      ELSE Effect(<<>>, TRUE, FALSE)

\* transports.ts: PinoBridgeTransport.info/debug/warn/error; calling a method
\* the backend does not have is a TypeError
PinoMethod(t, method, data) ==
    IF shouldLog(t.level, method)
      THEN IF method \in t.backend
             THEN Effect(<<[sink |-> "pino", method |-> method, by |-> t,
                            first |-> data, second |-> data.message]>>, FALSE, FALSE)
             ELSE Effect(<<>>, TRUE, FALSE)
      ELSE Effect(<<>>, FALSE, FALSE)

\* a caller-supplied transport: it sees every call made to it, and may throw
CustomMethod(t, method, data) ==
    Effect(<<[sink |-> "custom", method |-> method, by |-> t,
              first |-> data, second |-> data.message]>>, t.throws, FALSE)

\* t[method](data), by the class of t
Invoke(t, method, data, env) ==
    CASE t.kind = "console" -> ConsoleMethod(t, method, data, env.console)
      [] t.kind = "remote"  -> RemoteMethod(t, method, data, env.fetch)
      [] t.kind = "pino"    -> PinoMethod(t, method, data)
      [] t.kind = "custom"  -> CustomMethod(t, method, data)

----------------------------------------------------------------------------
(* The dispatcher (index.ts: LoggerSingleton) *)

\* this.transports: null, or an array with its items; own says the array is
\* one the dispatcher made (no one else can reach it), not the array the
\* caller keeps
Null == [null |-> TRUE, items |-> <<>>, own |-> TRUE]   \* transports: ITransport[] | null = null
Array(items) == [null |-> FALSE, items |-> items, own |-> TRUE]

\* getTransports taking an empty list for an unset one
getTransportsEmptyIsUnset(tr) ==
    IF tr.null \/ tr.items = <<>> THEN Array(<<DefaultConsole>>) ELSE tr

\* index.ts: getTransports()
getTransports(tr) == IF tr.null THEN Array(<<DefaultConsole>>) ELSE tr

\* setTransports keeping the transports already active
setTransportsKeep(tr, ts) == Array(tr.items \o ts)

\* setTransports keeping the array it is given instead of copying it
setTransportsSameArray(tr, ts) == [Array(ts) EXCEPT !.own = FALSE]

\* index.ts: setTransports(transports): this.transports = [...transports],
\* a new array with the same items
setTransports(tr, ts) == Array(ts)

\* addTransport pushing onto the list without creating the default set
addTransportNoDefault(tr, t) == Array(Append(tr.items, t))

\* index.ts: addTransport(transport): push onto the array getTransports
\* returns, which stays the same array
addTransport(tr, t) == [getTransports(tr) EXCEPT !.items = Append(@, t)]

\* what the array the caller keeps holds once the dispatcher's list is tr:
\* what it held, unless the two are one array
callerArrayAfter(tr, arr) == IF tr.own THEN arr ELSE tr.items

\* what a call made from inside a transport method does to the dispatcher
\* while the loop runs: tr is this.transports, arr the array the loop
\* iterates, same whether they are still one array (push changes both)
Reenter(t, acc) ==
    CASE t.reenters = "add" ->
           LET tr == addTransport(acc.tr, Spy)
           IN  [acc EXCEPT !.tr = tr,
                           !.arr = IF acc.same THEN tr.items ELSE acc.arr]
      [] t.reenters = "configure" ->
           [acc EXCEPT !.tr = setTransports(acc.tr, <<Spy>>), !.same = FALSE]
      [] OTHER -> acc

\* a switch whose debug case calls the info method
switchLevelDebugAsInfo(level) ==
    CASE level = "info"  -> "info"
      [] level = "debug" -> "info"
      [] level = "warn"  -> "warn"
      [] level = "error" -> "error"

\* index.ts dispatch: switch (level), the transport method each case calls
switchLevel(level) ==
    CASE level = "info"  -> "info"
      [] level = "debug" -> "debug"
      [] level = "warn"  -> "warn"
      [] level = "error" -> "error"

\* index.ts dispatch: the for...of loop over the transports, from position i
\* (the array iterator reads the length at every step); an exception thrown
\* by a transport method leaves the loop and the call
RECURSIVE forOf(_, _, _, _, _)
forOf(i, level, finalData, env, acc) ==
    IF i > Len(acc.arr)
      THEN acc
      ELSE LET t == acc.arr[i]
               method == switchLevel(level)
               e == Invoke(t, method, finalData, env)
               acc2 == Reenter(t, [acc EXCEPT !.invoked = Append(acc.invoked, t),
                                              !.calls = Append(acc.calls,
                                                  [on |-> t, method |-> method]),
                                              !.outputs = acc.outputs \o e.out,
                                              !.trace = acc.trace
                                                  \o <<[what |-> "invoke", by |-> t,
                                                        message |-> finalData.message]>>
                                                  \o [k \in 1 .. Len(e.out) |->
                                                        [what |-> e.out[k].sink, by |-> t,
                                                         message |-> finalData.message]],
                                              !.threw = e.threw,
                                              !.rejected = acc.rejected \/ e.rejected])
           IN  IF e.threw
                 THEN acc2
                 ELSE forOf(i + 1, level, finalData, env, acc2)

\* index.ts: dispatch(level, data, metadata?)
dispatch(tr, level, data, metadata, env) ==
    LET finalData == IF metadata.given                 \* an object is truthy, also when empty
                       THEN mergeMetadata(data, metadata.obj)
                       ELSE data
        after == IF metadata.given
                   THEN argumentsAfterMerge(data, metadata.obj)
                   ELSE [data |-> data, metadata |-> metadata.obj]
        run == forOf(1, level, finalData, env,
                     [arr |-> getTransports(tr).items, tr |-> getTransports(tr),
                      same |-> TRUE, invoked |-> <<>>, calls |-> <<>>,
                      outputs |-> <<>>, trace |-> <<>>, threw |-> FALSE,
                      rejected |-> FALSE])
    IN  [transports |-> run.tr, began |-> getTransports(tr), final |-> finalData,
         data |-> after.data, metadata |-> after.metadata,
         invoked |-> run.invoked, calls |-> run.calls, outputs |-> run.outputs,
         trace |-> run.trace, threw |-> run.threw, rejected |-> run.rejected]

\* the methods a handle has: the singleton is a LoggerSingleton, a scoped
\* handle is the object literal child() returns
RootMethods == TLogLevel \cup {"child", "setTransports", "addTransport"}
ScopedMethods == TLogLevel
MethodsOf(h) == IF h = Root THEN RootMethods ELSE ScopedMethods

\* a scoped handle that owns a dispatcher of its own, never configured
dispatcherOfOwnCopy(h, tr) == IF h = Root THEN tr ELSE Null

\* index.ts child: the methods of a scoped handle are arrow functions that
\* call this.dispatch, this being the singleton; the transport list a call
\* on handle h works with is the singleton's
dispatcherOf(h, tr) == tr

\* index.ts child(metadata): the closure keeps the caller's object itself;
\* atBind remembers what the object held when the handle was made
child(metadata) == [metadata |-> metadata, atBind |-> metadata]
----------------------------------------------------------------------------
(* The state after the modules have loaded *)

\* transports.ts, the safeConsole probe at module load: what the global
\* console gives when read (nothing, an exception, or an object with some
\* of the four methods) and the methods reachable through safeConsole?.m
\* (id tells the console the host had at load from one put in its place later)
HostConsole(access, methods) == [access |-> access, methods |-> methods, id |-> "atLoad"]
NoConsole == HostConsole("undefined", {})
ThrowingConsole == HostConsole("throws", {})
PartialConsole == HostConsole("object", {"info"})
FullConsole == HostConsole("object", TLogLevel)
HostConsoles == {NoConsole, ThrowingConsole, PartialConsole, FullConsole}
safeConsoleProbe(host) == IF host.access = "object" THEN host.methods ELSE {}
\* what a test or the host assigns to the global console after load
Later(host) == [host EXCEPT !.id = "later"]
LaterConsoles == {Later(NoConsole), Later(PartialConsole), Later(FullConsole)}

\* a console sink that probes the global console at every call
safeConsoleAtCallProbedAgain(cached, global) ==
    [id |-> global.id, methods |-> safeConsoleProbe(global)]

\* transports.ts: what safeConsole is when a ConsoleTransport method reads
\* it: the constant set at load, whatever the global console is now
safeConsoleAtCall(cached, global) == [id |-> "atLoad", methods |-> cached]

\* a recorder, as spies on every transport method and on fetch make one:
\* calls has the list each observed logging call found, entries what the
\* calls did in the order it happened, completions the requests in the order
\* they completed; it observes the first Recorded calls
Recorded == 2
NotRecording == [on |-> FALSE, calls |-> <<>>, entries |-> <<>>, completions |-> <<>>]
Recording == [NotRecording EXCEPT !.on = TRUE]

\* the recorder after a logging call whose dispatch gave d
Observe(j, d, fetchImpl) ==
    IF j.on /\ Len(j.calls) < Recorded
      THEN [j EXCEPT !.calls = Append(@, [began |-> d.began.items, threw |-> d.threw,
                                          fetch |-> fetchImpl,
                                          circular |-> d.final.data.circular]),
                     !.entries = @ \o [k \in 1 .. Len(d.trace) |->
                                         [call |-> Len(j.calls) + 1,
                                          what |-> d.trace[k].what,
                                          by |-> d.trace[k].by,
                                          message |-> d.trace[k].message,
                                          done |-> FALSE]]]
      ELSE j

\* a dispatcher that creates its default transport when the module loads
InitEager ==
    /\ transports = Array(<<DefaultConsole>>)
    /\ handles = <<>>
    /\ safeConsole = safeConsoleProbe(FullConsole)
    /\ globalConsole = FullConsole
    /\ callerArray = <<>>
    /\ journal = NotRecording
    /\ last = [op |-> "load"]

Init ==
    /\ transports = Null
    /\ handles = <<>>
    /\ safeConsole = safeConsoleProbe(FullConsole)
    /\ globalConsole = FullConsole
    /\ callerArray = <<>>
    /\ journal = NotRecording
    /\ last = [op |-> "load"]

----------------------------------------------------------------------------
(* The public operations, one action each *)

\* utils.ts: a caller evaluates the exported shouldLog
CallShouldLog(transportLevel, messageLevel) ==
    /\ last' = [op |-> "shouldLog", transportLevel |-> transportLevel,
                messageLevel |-> messageLevel,
                ret |-> shouldLog(transportLevel, messageLevel)]
    /\ UNCHANGED <<transports, handles, safeConsole, globalConsole, callerArray, journal>>

\* types.ts: a caller validates a candidate with the exported schema
CallSchema(candidate) ==
    /\ last' = [op |-> "schema", arg |-> candidate, ret |-> logMessageSchema(candidate)]
    /\ UNCHANGED <<transports, handles, safeConsole, globalConsole, callerArray, journal>>

\* configureLogger taking an absent transports field for an empty list
configureLoggerAbsentIsEmpty(tr, given, ts) ==
    IF given THEN setTransports(tr, ts) ELSE setTransports(tr, <<>>)

\* configureLogger creating the list when no transports field is given
configureLoggerAbsentInitialises(tr, given, ts) ==
    IF given THEN setTransports(tr, ts) ELSE getTransports(tr)

\* index.ts configureLogger: if (options.transports) logger.setTransports(...);
\* given says the options object has a transports field holding an array
configureLogger(tr, given, ts) ==
    IF given THEN setTransports(tr, ts) ELSE tr

\* index.ts: configureLogger(options); options.transports may be absent
ConfigureLogger(given, ts) ==
    /\ transports' = configureLogger(transports, given, ts)
    /\ last' = [op |-> "configureLogger", given |-> given, arg |-> ts]
    /\ UNCHANGED <<handles, safeConsole, globalConsole, callerArray, journal>>

\* index.ts: addTransport(transport)
AddTransport(t) ==
    /\ Len(getTransports(transports).items) < MaxTransports
    /\ transports' = addTransport(transports, t)
    /\ callerArray' = callerArrayAfter(transports', callerArray)
    /\ last' = [op |-> "addTransport", arg |-> t, before |-> transports]
    /\ UNCHANGED <<handles, safeConsole, globalConsole, journal>>

\* configureLogger({transports: arr}), arr being the array the caller keeps
ConfigureLoggerKept ==
    /\ transports' = configureLogger(transports, TRUE, callerArray)
    /\ last' = [op |-> "configureLogger", given |-> TRUE, arg |-> callerArray]
    /\ UNCHANGED <<handles, safeConsole, globalConsole, callerArray, journal>>

\* the caller pushes a transport onto the array it keeps
CallerPush(t) ==
    /\ Len(callerArray) < MaxTransports
    /\ callerArray' = Append(callerArray, t)
    /\ transports' = IF transports.own THEN transports
                       ELSE [transports EXCEPT !.items = callerArray']
    /\ last' = [op |-> "push", arg |-> t]
    /\ UNCHANGED <<handles, safeConsole, globalConsole, journal>>

\* the caller removes the last transport of the array it keeps
CallerPop ==
    /\ callerArray # <<>>
    /\ callerArray' = SubSeq(callerArray, 1, Len(callerArray) - 1)
    /\ transports' = IF transports.own THEN transports
                       ELSE [transports EXCEPT !.items = callerArray']
    /\ last' = [op |-> "pop"]
    /\ UNCHANGED <<handles, safeConsole, globalConsole, journal>>

\* useLogging testing only for an absent argument
useLoggingNoEmptyCheck(hs, metadata) ==
    IF ~metadata.given
      THEN [handles |-> hs, ret |-> Root]
      ELSE [handles |-> Append(hs, child(metadata.obj)), ret |-> Len(hs) + 1]

\* index.ts: useLogging(metadata?)
useLogging(hs, metadata) ==
    IF ~metadata.given \/ DOMAIN metadata.obj = {}
      THEN [handles |-> hs, ret |-> Root]
      ELSE [handles |-> Append(hs, child(metadata.obj)), ret |-> Len(hs) + 1]

UseLogging(metadata) ==
    LET r == useLogging(handles, metadata)
    IN  /\ Len(r.handles) <= MaxHandles
        /\ handles' = r.handles
        /\ last' = [op |-> "useLogging", arg |-> metadata, ret |-> r.ret]
        /\ UNCHANGED <<transports, safeConsole, globalConsole, callerArray, journal>>

\* h.child(metadata), on the singleton or on a scoped handle: calling a
\* method the handle does not have is a TypeError
Child(h, metadata) ==
    LET has == "child" \in MethodsOf(h)
    IN  /\ has => Len(handles) < MaxHandles
        /\ handles' = IF has THEN Append(handles, child(metadata)) ELSE handles
        /\ last' = [op |-> "child", on |-> h, arg |-> metadata, threw |-> ~has,
                    ret |-> IF has THEN Len(handles) + 1 ELSE Root]
        /\ UNCHANGED <<transports, safeConsole, globalConsole, callerArray, journal>>

\* the caller assigns to a key of the metadata object it passed for handle h
MutateMetadata(h, k, v) ==
    /\ handles' = [handles EXCEPT ![h].metadata = Spread(@, [x \in {k} |-> v])]
    /\ handles'[h].metadata # handles[h].metadata
    /\ last' = [op |-> "mutate", on |-> h]
    /\ UNCHANGED <<transports, safeConsole, globalConsole, callerArray, journal>>

\* index.ts: h.info / h.debug / h.warn / h.error (data), with the host's fetch;
\* a call during which transports add transports is taken while the list it
\* leaves fits the bound
Log(h, level, data, fetchImpl) ==
    LET metadata == IF h = Root THEN Absent ELSE Given(handles[h].metadata)
        console == safeConsoleAtCall(safeConsole, globalConsole)
    IN  \E d \in {dispatch(dispatcherOf(h, transports), level, data, metadata,
                            [console |-> console.methods, fetch |-> fetchImpl])} :
            /\ Len(d.transports.items) <= MaxTransports
            /\ transports' = d.transports
            /\ handles' = IF h = Root THEN handles
                           ELSE [handles EXCEPT ![h].metadata = d.metadata]
            /\ last' = [op |-> "log", on |-> h, level |-> level, data |-> data,
                        bound |-> metadata.obj, after |-> d.data,
                        fetch |-> fetchImpl, console |-> console.id,
                        began |-> d.began.items,
                        final |-> d.final, invoked |-> d.invoked, calls |-> d.calls,
                        outputs |-> d.outputs, threw |-> d.threw,
                        rejected |-> d.rejected]
            /\ callerArray' = callerArrayAfter(d.transports, callerArray)
            /\ journal' = Observe(journal, d, fetchImpl)
            /\ UNCHANGED <<safeConsole, globalConsole>>

\* transports.ts, send after its await: the request numbered i of the last
\* call completes; a failure lands in the empty catch block, a success is
\* not looked at
Settle(i) ==
    /\ last.op \in {"log", "settled"}
    /\ i \in 1 .. Len(last.outputs)
    /\ last.outputs[i].sink = "fetch"
    /\ ~last.outputs[i].settled
    /\ last.fetch # Pending
    /\ last' = [last EXCEPT !.op = "settled", !.outputs[i].settled = TRUE]
    /\ UNCHANGED <<transports, handles, safeConsole, globalConsole, callerArray, journal>>

\* the global console is assigned (global.console = ...), as the tests do
ReplaceConsole(host) ==
    /\ globalConsole' = host
    /\ last' = [op |-> "replaceConsole", arg |-> host]
    /\ UNCHANGED <<transports, handles, safeConsole, callerArray, journal>>

\* transports.ts, send after its await, for a request the recorder saw
\* issued (its entry k): the request completes
SettleRecorded(k) ==
    /\ k \in 1 .. Len(journal.entries)
    /\ journal.entries[k].what = "fetch"
    /\ ~journal.entries[k].done
    /\ journal' = [journal EXCEPT !.entries[k].done = TRUE,
                                  !.completions = Append(@, journal.entries[k].call)]
    /\ UNCHANGED <<transports, handles, safeConsole, globalConsole, callerArray, last>>

----------------------------------------------------------------------------
(* The inputs the caller draws from *)

HandleIds == Root .. Len(handles)
ScopedIds == 1 .. Len(handles)

RECURSIVE SeqsUpTo(_, _)
SeqsUpTo(S, n) ==
    IF n = 0 THEN {<<>>}
    ELSE LET shorter == SeqsUpTo(S, n - 1)
         IN  shorter \cup {Append(q, x) : q \in shorter, x \in S}

\* every built-in sink at every threshold, and caller-supplied transports
Pool ==
    {ConsoleTransport(l) : l \in TLogLevel}
    \cup {RemoteTransport(LogUrl, l) : l \in TLogLevel}
    \cup {PinoBridgeTransport(l) : l \in TLogLevel}
    \cup {CustomTransport(UNDEF, b) : b \in BOOLEAN}
\* a spy, as the tests use
SmallPool == {CustomTransport(UNDEF, FALSE)}
\* console sinks at every threshold
ConsolePool == {ConsoleTransport(l) : l \in TLogLevel}

\* events with every metadata (or none), serialisable
MetaEvents ==
    {TLog("Hello", TLogData(FALSE, EmptyMeta, SomeData, FALSE))}
    \cup {TLog("Hello", TLogData(TRUE, m, SomeData, FALSE)) : m \in Metas}
\* events without metadata, serialisable or not
PlainEvents == {TLog("Hello", TLogData(FALSE, EmptyMeta, SomeData, c)) : c \in BOOLEAN}

\* the level the events of this specification are logged at (the merge does
\* not depend on it; SinkSpec and LevelSpec range over the levels)
MetaLevels == {"info"}

\* the program with the full range of metadata and handles, and a spy transport
Next ==
    \/ \E ts \in SeqsUpTo(SmallPool, MaxTransports) : ConfigureLogger(TRUE, ts)
    \/ ConfigureLogger(FALSE, <<>>)
    \/ \E t \in SmallPool : AddTransport(t)
    \/ UseLogging(Absent)
    \/ \E m \in Metas : UseLogging(Given(m))
    \/ \E h \in HandleIds, m \in Metas : Child(h, m)
    \/ \E h \in ScopedIds, k \in MetaKeys : \E v \in MetaValues(k) : MutateMetadata(h, k, v)
    \/ \E h \in HandleIds, l \in MetaLevels, d \in MetaEvents : Log(h, l, d, "resolves")

Spec == Init /\ [][Next]_vars

\* the program with every transport and host failure, logging through the
\* singleton; a list is configured empty or with one transport and grown
\* with addTransport
SinkNext ==
    \/ \E ts \in {<<>>} \cup {<<t>> : t \in Pool} : ConfigureLogger(TRUE, ts)
    \/ ConfigureLogger(FALSE, <<>>)
    \/ \E t \in Pool : AddTransport(t)
    \/ \E l \in TLogLevel, d \in PlainEvents, f \in FetchImpls : Log(Root, l, d, f)

SinkSpec == Init /\ [][SinkNext]_vars

\* the level ordering: shouldLog called directly and through console sinks
LevelNext ==
    \/ \E t \in TLogLevel \cup {UNDEF}, m \in TLogLevel : CallShouldLog(t, m)
    \/ \E t \in ConsolePool : AddTransport(t)
    \/ \E l \in TLogLevel, d \in PlainEvents : Log(Root, l, d, "resolves")

LevelSpec == Init /\ [][LevelNext]_vars

\* events of every shape: the message a string, absent or a number, the data
\* a mapping, absent or a number
ShapeEvents ==
    {TLog(m, TLogData(FALSE, EmptyMeta, SomeData, FALSE)) :
        m \in {"Hello", NoMessage, NumberMessage}}
    \cup {TLog(m, NonMappingData(ty)) :
        m \in {"Hello", NoMessage}, ty \in DataTypes \ {"mapping"}}
    \cup {TLog("Hello", TLogData(FALSE, EmptyMeta, SomeData, TRUE))}
\* the built-in sinks at threshold info, the bridge over a backend that has
\* the info method and lacks the error method
ShapePool ==
    {ConsoleTransport("info"), RemoteTransport(LogUrl, "info"),
     PinoBridgeOn({"info"}, "info")}
ShapeLevels == {"info", "error"}
ShapeMeta == [k \in {"a"} |-> Scalar(1)]

\* the program with events of every shape, well formed or not, given to the
\* singleton and to a scoped handle over the built-in sinks
ShapeNext ==
    \/ \E ts \in {<<>>} \cup {<<t>> : t \in ShapePool} : ConfigureLogger(TRUE, ts)
    \/ \E t \in ShapePool : AddTransport(t)
    \/ UseLogging(Given(ShapeMeta))
    \/ \E h \in HandleIds, l \in ShapeLevels, d \in ShapeEvents, f \in FetchImpls :
          Log(h, l, d, f)

ShapeSpec == Init /\ [][ShapeNext]_vars

\* the module loaded on a host with any of the consoles
HostInit ==
    /\ transports = Null
    /\ handles = <<>>
    /\ \E host \in HostConsoles :
          /\ globalConsole = host
          /\ safeConsole = safeConsoleProbe(host)
    /\ callerArray = <<>>
    /\ journal = NotRecording
    /\ last = [op |-> "load"]

\* the program on hosts without a console or with a partial one: console
\* sinks at every threshold, events at every level
HostNext ==
    \/ \E ts \in {<<>>} \cup {<<t>> : t \in ConsolePool} : ConfigureLogger(TRUE, ts)
    \/ \E t \in ConsolePool : AddTransport(t)
    \/ UseLogging(Absent)
    \/ UseLogging(Given(ShapeMeta))
    \/ \E h \in HandleIds, l \in TLogLevel, d \in PlainEvents : Log(h, l, d, "resolves")

HostSpec == HostInit /\ [][HostNext]_vars

\* console sinks at two thresholds
ProbePool == {ConsoleTransport("debug"), ConsoleTransport("warn")}

ProbeEvents == {TLog("Hello", TLogData(FALSE, EmptyMeta, NoRest, FALSE))}

\* the program on any host, the global console being replaced after load
ProbeNext ==
    \/ \E host \in LaterConsoles : ReplaceConsole(host)
    \/ \E ts \in {<<>>} \cup {<<t>> : t \in ProbePool} : ConfigureLogger(TRUE, ts)
    \/ \E t \in ProbePool : AddTransport(t)
    \/ \E l \in TLogLevel, d \in ProbeEvents : Log(Root, l, d, "resolves")

ProbeSpec == HostInit /\ [][ProbeNext]_vars

\* a spy and the transports whose methods change the transport list
ReentryPool == {Spy, ReentrantTransport("add"), ReentrantTransport("configure")}
ReentryLevels == TLogLevel

\* the program with transports that call addTransport or configureLogger
\* from inside their methods, while dispatch iterates
ReentryNext ==
    \/ \E ts \in {<<>>} \cup {<<t>> : t \in ReentryPool} : ConfigureLogger(TRUE, ts)
    \/ \E t \in ReentryPool : AddTransport(t)
    \/ \E l \in ReentryLevels, d \in PlainEvents : Log(Root, l, d, "resolves")

ReentrySpec == Init /\ [][ReentryNext]_vars

\* remote sinks at two thresholds and a spy
AsyncPool == {RemoteTransport(LogUrl, "info"), RemoteTransport(LogUrl, "error"), Spy}
AsyncLevels == {"info", "error"}
\* the host's fetch, also one that never settles
AsyncFetchImpls == FetchImpls \cup {Pending}

\* the program with remote sinks whose requests complete after the logging
\* call has returned, or never
AsyncNext ==
    \/ \E ts \in {<<>>} \cup {<<t>> : t \in AsyncPool} : ConfigureLogger(TRUE, ts)
    \/ \E t \in AsyncPool : AddTransport(t)
    \/ \E l \in AsyncLevels, d \in PlainEvents, f \in AsyncFetchImpls : Log(Root, l, d, f)
    \/ \E i \in 1 .. MaxTransports : Settle(i)

AsyncSpec == Init /\ [][AsyncNext]_vars

\* remote sinks at two destinations
OtherUrl == "https://logs.example.com/ingest"
WirePool == {RemoteTransport(LogUrl, "info"), RemoteTransport(OtherUrl, "debug")}
\* well-formed events with any of the additional top-level fields
WireEvents ==
    {TLogWith("Hello", TLogData(FALSE, EmptyMeta, SomeData, FALSE), x) : x \in Extras}

\* the program with remote sinks and events that carry top-level fields of
\* their own, given to the singleton and to a scoped handle
WireNext ==
    \/ \E ts \in {<<>>} \cup {<<t>> : t \in WirePool} : ConfigureLogger(TRUE, ts)
    \/ \E t \in WirePool : AddTransport(t)
    \/ UseLogging(Given(ShapeMeta))
    \/ \E h \in HandleIds, l \in TLogLevel, d \in WireEvents : Log(h, l, d, "resolves")

WireSpec == Init /\ [][WireNext]_vars

\* remote sinks given each of the header mappings
HeaderPool == {RemoteTransportWith(LogUrl, "info", h) : h \in HeaderSets}
HeaderLevels == {"debug", "info"}
HeaderEvents == {TLog("Hello", TLogData(FALSE, EmptyMeta, SomeData, FALSE))}

\* the program with remote sinks that were given headers
HeaderNext ==
    \/ \E ts \in {<<>>} \cup {<<t>> : t \in HeaderPool} : ConfigureLogger(TRUE, ts)
    \/ \E t \in HeaderPool : AddTransport(t)
    \/ \E l \in HeaderLevels, fetchImpl \in {"resolves", "fails"} :
          \E d \in HeaderEvents : Log(Root, l, d, fetchImpl)

HeaderSpec == Init /\ [][HeaderNext]_vars

\* the module loaded, with a recorder on every transport and on fetch
OrderInit ==
    /\ transports = Null
    /\ handles = <<>>
    /\ safeConsole = safeConsoleProbe(FullConsole)
    /\ globalConsole = FullConsole
    /\ callerArray = <<>>
    /\ journal = Recording
    /\ last = [op |-> "load"]

\* remote sinks at two thresholds, a spy and a transport that throws
OrderPool == {RemoteTransport(LogUrl, "info"), RemoteTransport(LogUrl, "error"), Spy,
              CustomTransport(UNDEF, TRUE)}
OrderLevels == {"info"}
\* the events the caller logs, the first and the second: they differ in
\* their message
OrderEvents == <<TLog("Hello", TLogData(FALSE, EmptyMeta, NoRest, FALSE)),
                 TLog("Bye", TLogData(FALSE, EmptyMeta, NoRest, FALSE))>>
OrderFetchImpls == {"resolves", "missing"}

\* the program observed over two logging calls: the caller configures,
\* then logs the two events one after the other, adding transports before
\* or between the calls; the requests complete at any time after they were
\* issued
OrderNext ==
    \/ /\ journal.calls = <<>>
       /\ \E ts \in {<<>>} \cup {<<t>> : t \in OrderPool} : ConfigureLogger(TRUE, ts)
    \/ /\ Len(journal.calls) < Recorded
       /\ \E t \in OrderPool : AddTransport(t)
    \/ /\ Len(journal.calls) < Recorded
       /\ \E l \in OrderLevels, f \in OrderFetchImpls :
             Log(Root, l, OrderEvents[Len(journal.calls) + 1], f)
    \/ \E k \in 1 .. 2 * Recorded * (MaxTransports + 1) : SettleRecorded(k)

OrderSpec == OrderInit /\ [][OrderNext]_vars

\* a spy and two console sinks
CopyPool == {Spy, ConsoleTransport("info"), ConsoleTransport("error")}
CopyLevels == {"info"}
CopyEvents == {TLog("Hello", TLogData(FALSE, EmptyMeta, SomeData, FALSE))}

\* the program with a caller that keeps the array it configures with and
\* goes on changing it
CopyNext ==
    \/ ConfigureLoggerKept
    \/ \E t \in CopyPool : CallerPush(t)
    \/ CallerPop
    \/ \E t \in CopyPool : AddTransport(t)
    \/ \E l \in CopyLevels, d \in CopyEvents : Log(Root, l, d, "resolves")

CopySpec == Init /\ [][CopyNext]_vars

\* a spy and a console sink
ScopePool == {Spy, ConsoleTransport("debug")}
ScopeLevels == {"debug", "info"}

\* the program with scoped handles that are all made before the transport
\* list is first set, and used after it has been configured and grown
ScopeNext ==
    \/ transports.null /\ UseLogging(Given(ShapeMeta))
    \/ transports.null /\ Child(Root, ShapeMeta)
    \/ \E ts \in SeqsUpTo(ScopePool, MaxTransports) : ConfigureLogger(TRUE, ts)
    \/ \E t \in ScopePool : AddTransport(t)
    \/ \E h \in HandleIds, l \in ScopeLevels, d \in PlainEvents : Log(h, l, d, "resolves")

ScopeSpec == Init /\ [][ScopeNext]_vars

\* candidates of every shape: any message, a data of any type, with or
\* without a metadata of any type and other keys, and any other top-level
\* field
Candidates ==
    {TLogWith(m, d, x) :
        m \in {"Hello", NoMessage, NumberMessage},
        d \in {TLogData(FALSE, EmptyMeta, r, FALSE) : r \in {NoRest, SomeData}}
              \cup {TLogData(TRUE, md, r, FALSE) : md \in Metas, r \in {NoRest, SomeData}}
              \cup {TLogDataBadMetadata(ty, r) :
                        ty \in {"string", "array"}, r \in {NoRest, SomeData}}
              \cup {NonMappingData(ty) : ty \in ValueTypes \ {"mapping"}},
        x \in Extras}

\* the schema applied to candidates
SchemaNext == \E c \in Candidates : CallSchema(c)

SchemaSpec == Init /\ [][SchemaNext]_vars
----------------------------------------------------------------------------
(* Properties *)

\* the severities from lowest to highest, as the claims order them
SeverityOrder == <<"debug", "info", "warn", "error">>
Rank(l) == (CHOOSE i \in 1 .. Len(SeverityOrder) : SeverityOrder[i] = l) - 1

\* the active list, and whether position i of it holds transport t
Active == transports.items
IsPrefix(p, q) == Len(p) <= Len(q) /\ \A i \in 1 .. Len(p) : p[i] = q[i]

\* the event's own metadata, an absent one taken as empty
OwnMetadata(data) == IF data.data.hasMetadata THEN data.data.metadata ELSE EmptyMeta

\* C1: shouldLog(t, m) is true exactly when rank(m) >= rank(t), with ranks
\* debug=0 < info=1 < warn=2 < error=3 and an absent t treated as info.
C1_ShouldLogIsRankOrder ==
    last.op = "shouldLog" =>
        LET t == IF last.transportLevel = UNDEF THEN "info" ELSE last.transportLevel
        IN  last.ret <=> (Rank(last.messageLevel) >= Rank(t))

\* an absent threshold was compared with a debug message and refused it
C1_Witness ==
    /\ last.op = "shouldLog"
    /\ last.transportLevel = UNDEF
    /\ last.messageLevel = "debug"
    /\ last.ret = FALSE

\* C2: whatever was configured, added, derived or logged before, useLogging()
\* and useLogging({}) return the root handle, and useLogging(m) with a
\* non-empty m returns a handle that is not the root handle.
C2_RootIdentity ==
    last.op = "useLogging" =>
        IF ~last.arg.given \/ last.arg.obj = EmptyMeta
          THEN last.ret = Root
          ELSE last.ret # Root /\ last.ret \in ScopedIds

\* useLogging({}) returned the root after transports were configured and a
\* scoped handle was made
C2_Witness ==
    /\ last.op = "useLogging"
    /\ last.arg.given /\ last.arg.obj = EmptyMeta
    /\ last.ret = Root
    /\ ~transports.null
    /\ Len(handles) > 0

\* C3: configureLogger({transports: ts}) leaves exactly ts active, whatever
\* was active before; addTransport(C) after that leaves the former list
\* followed by C; and a logging call invokes transports of the active list
\* only, in order, all of them unless one of them throws.
C3_ReplaceThenAppend ==
    /\ (last.op = "configureLogger" /\ last.given) =>
           ~transports.null /\ Active = last.arg
    /\ (last.op = "addTransport" /\ ~last.before.null) =>
           Active = Append(last.before.items, last.arg)
    /\ last.op = "log" =>
           /\ IsPrefix(last.invoked, Active)
           /\ ~last.threw => last.invoked = Active

\* with B and C active (B configured, C added), an event went to B and to C
C3_Witness ==
    /\ last.op = "log"
    /\ Active = <<ConsoleTransport("debug"), CustomTransport(UNDEF, FALSE)>>
    /\ last.invoked = Active
    /\ Len(last.outputs) = 2
\* the host facility a built-in sink writes to, for a call at this level
Sink(t) == CASE t.kind = "console" -> "console"
             [] t.kind = "remote"  -> "fetch"
             [] t.kind = "pino"    -> "pino"
             [] OTHER              -> "custom"
BuiltIn(t) == t.kind \in {"console", "remote", "pino"}
HostAvailable(t) ==
    CASE t.kind = "console" -> last.level \in safeConsole
      [] t.kind = "remote"  -> last.fetch # "missing"
      [] t.kind = "pino"    -> last.level \in t.backend
      [] OTHER              -> TRUE
Emitted(t) == \E i \in 1 .. Len(last.outputs) :
                  last.outputs[i].by = t /\ last.outputs[i].sink = Sink(t)

\* C4 as stated: every built-in sink whose method was invoked, the host
\* facility being available, produced its output exactly when the level of
\* the event reaches its threshold.
C4_SinkEmitsIffLevelPasses ==
    last.op = "log" =>
        \A i \in 1 .. Len(last.invoked) :
            LET t == last.invoked[i]
            IN  (BuiltIn(t) /\ HostAvailable(t)) =>
                    (Emitted(t) <=> Rank(last.level) >= Rank(t.level))

\* C4 (amended): the same, for a RemoteTransport provided the event can be
\* serialised to JSON (an event that cannot is dropped without a request).
C4_SinkEmitsIffLevelPassesSerialisable ==
    last.op = "log" =>
        \A i \in 1 .. Len(last.invoked) :
            LET t == last.invoked[i]
            IN  (/\ BuiltIn(t) /\ HostAvailable(t)
                 /\ t.kind = "remote" => ~last.final.data.circular) =>
                    (Emitted(t) <=> Rank(last.level) >= Rank(t.level))

\* a debug event went to a remote sink at threshold info, which stayed silent,
\* and to a pino sink at threshold debug, which forwarded it
C4_Witness ==
    /\ last.op = "log" /\ last.level = "debug" /\ last.fetch = "resolves"
    /\ ~last.final.data.circular
    /\ last.invoked = <<RemoteTransport(LogUrl, "info"), PinoBridgeTransport("debug")>>
    /\ ~Emitted(last.invoked[1])
    /\ Emitted(last.invoked[2])
\* the last call was a logging call through a scoped handle
ScopedLog == last.op = "log" /\ last.on # Root
\* every event a transport was handed in the last call is the final event
AllSawFinal ==
    \A i \in 1 .. Len(last.outputs) :
        LET o == last.outputs[i]
        IN  IF o.sink = "console" THEN o.second = last.final
            ELSE o.sink \in {"pino", "custom"} => o.first = last.final

\* C5: an event emitted through a handle whose bound metadata b is not empty
\* reaches the transports with data.metadata the key-wise union of its own
\* metadata e (absent taken as empty) and b: every key of b with b's value,
\* every key only in e with e's value, and no other key.
C5_MergeBoundWins ==
    (ScopedLog /\ handles[last.on].metadata # EmptyMeta) =>
        LET b == handles[last.on].metadata
            e == OwnMetadata(last.data)
            f == last.final.data
        IN  /\ f.hasMetadata
            /\ DOMAIN f.metadata = (DOMAIN e) \cup (DOMAIN b)
            /\ \A k \in DOMAIN b : f.metadata[k] = b[k]
            /\ \A k \in (DOMAIN e) \ (DOMAIN b) : f.metadata[k] = e[k]
            /\ AllSawFinal

\* a handle bound to {user: {id: 2}} sent an event carrying {a: 1}, and the
\* transports saw {a: 1, user: {id: 2}}
C5_Witness ==
    /\ ScopedLog
    /\ handles[last.on].metadata = [k \in {"user"} |-> User2]
    /\ last.data.data.hasMetadata
    /\ last.data.data.metadata = [k \in {"a"} |-> Scalar(1)]
    /\ last.final.data.metadata = [k \in {"a", "user"} |-> IF k = "a" THEN Scalar(1) ELSE User2]
    /\ Len(last.outputs) > 0

\* C6: the merge is shallow: for a key k that the event's own metadata and
\* the bound metadata both map to a mapping, the delivered value of k is the
\* bound value, with none of the fields only the event's value had.
C6_MergeIsShallow ==
    ScopedLog =>
        LET b == handles[last.on].metadata
            e == OwnMetadata(last.data)
            f == last.final.data.metadata
        IN  \A k \in (DOMAIN e) \cap (DOMAIN b) :
                (e[k].kind = "mapping" /\ b[k].kind = "mapping") =>
                    /\ f[k] = b[k]
                    /\ (DOMAIN f[k].fields) \cap
                           ((DOMAIN e[k].fields) \ (DOMAIN b[k].fields)) = {}

\* the event carried user {id: 1, name: "A"}, the handle was bound to
\* user {id: 2}, and the name did not reach the transports
C6_Witness ==
    /\ ScopedLog
    /\ "user" \in DOMAIN OwnMetadata(last.data)
    /\ OwnMetadata(last.data)["user"] = UserA
    /\ "user" \in DOMAIN handles[last.on].metadata
    /\ handles[last.on].metadata["user"] = User2
    /\ DOMAIN last.final.data.metadata["user"].fields = {"id"}

\* C7: child(m2) on a scoped handle made with m1 returns a new handle bound
\* to the shallow merge of m1 and m2, m2 winning on a collision.
C7_ChildOfScopedMerges ==
    (last.op = "child" /\ last.on # Root) =>
        /\ ~last.threw
        /\ last.ret \in ScopedIds /\ last.ret # last.on
        /\ handles[last.ret].metadata = Spread(handles[last.on].metadata, last.arg)

\* C8: bound metadata is captured by value: an event emitted through a
\* scoped handle carries the metadata the handle was created with, also
\* after the caller changed the object it passed.
C8_BoundByValue ==
    ScopedLog =>
        last.final.data.metadata =
            Spread(OwnMetadata(last.data), handles[last.on].atBind)

\* C9: an exception raised by one transport's method does not keep the
\* transports after it in the active list from being invoked for the event.
C9_ThrowDoesNotStopDelivery ==
    last.op = "log" => last.invoked = Active

\* a remote sink's send failed in the last call: its threshold let the event
\* through and the body of send's try block failed
RemoteSendFailed ==
    /\ last.op = "log"
    /\ sendFails(last.final, last.fetch)
    /\ \E i \in 1 .. Len(last.invoked) :
           /\ last.invoked[i].kind = "remote"
           /\ shouldLog(last.invoked[i].level, last.level)

\* C10: when a RemoteTransport's send fails, nothing escapes from it, as an
\* exception or as a rejected promise, and the transports after it are
\* invoked: the call ends early only where a caller-supplied transport threw.
C10_RemoteFailureIsSilent ==
    RemoteSendFailed =>
        /\ ~last.rejected
        /\ last.threw => last.invoked[Len(last.invoked)].throws
        /\ ~last.threw => last.invoked = Active
        /\ \A i \in 1 .. Len(last.invoked) :
               (last.invoked[i].kind \in {"console", "pino"}
                  /\ shouldLog(last.invoked[i].level, last.level)) =>
                      Emitted(last.invoked[i])

\* the host had no fetch, the remote sink came first, and the console sink
\* after it still printed the event; the call returned normally
C10_Witness ==
    /\ RemoteSendFailed /\ last.fetch = "missing"
    /\ last.invoked = <<RemoteTransport(LogUrl, "info"), ConsoleTransport("info")>>
    /\ Emitted(last.invoked[2])
    /\ ~last.threw /\ ~last.rejected
\* C11 as stated: a logging call given an event the schema refuses (message
\* missing or not a string, data missing or not a mapping) fails at the call
\* and no transport is invoked for that event.
C11_MalformedEventIsRejected ==
    (last.op = "log" /\ ~logMessageSchema(last.data)) =>
        /\ last.threw
        /\ last.invoked = <<>>
        /\ last.outputs = <<>>

\* every transport of the list the call began with is built in
OnlyBuiltIns == \A i \in 1 .. Len(last.began) : BuiltIn(last.began[i])
\* every bridge of that list wraps a backend that has the method called
BackendsHaveMethod ==
    \A i \in 1 .. Len(last.began) :
        last.began[i].kind = "pino" => last.level \in last.began[i].backend

OnlyConsoles == \A i \in 1 .. Len(last.began) : last.began[i].kind = "console"

\* C13: through ConsoleTransports, a logging call at any level returns
\* normally and calls no console method the host does not have (none at all
\* when there is no console), and useLogging returns a handle whatever the
\* console.
C13_ConsoleAbsenceIsSilent ==
    /\ (last.op = "log" /\ OnlyConsoles) =>
          /\ ~last.threw /\ ~last.rejected
          /\ last.invoked = last.began
          /\ \A i \in 1 .. Len(last.outputs) : last.outputs[i].method \in safeConsole
          /\ last.level \notin safeConsole => last.outputs = <<>>
    /\ last.op = "useLogging" => last.ret \in HandleIds

\* a warn event passed the threshold of a console sink on a host whose
\* console has no warn method: nothing was emitted, the call returned
C13_Witness ==
    /\ last.op = "log" /\ OnlyConsoles
    /\ last.level = "warn"
    /\ last.level \notin safeConsole
    /\ \E i \in 1 .. Len(last.invoked) : shouldLog(last.invoked[i].level, last.level)
    /\ last.outputs = <<>> /\ ~last.threw

\* the event of the test: {message: "Hello", data: {some: "data"}}
HelloEvent == TLog("Hello", TLogData(FALSE, EmptyMeta, SomeData, FALSE))

\* C14: with exactly one ConsoleTransport("info") active, one info call on
\* the root handle with the Hello event makes exactly one console
\* invocation, console.info(message, event), and no other.
C14_OneConsoleInfoCall ==
    (/\ last.op = "log" /\ last.on = Root /\ last.level = "info"
     /\ last.data = HelloEvent
     /\ Len(last.began) = 1
     /\ last.began[1].kind = "console" /\ last.began[1].level = "info") =>
        last.outputs = <<[sink |-> "console", method |-> "info", by |-> last.began[1],
                          first |-> "Hello", second |-> HelloEvent]>>

\* the Hello event was logged at info through one configured
\* ConsoleTransport("info") and console.info was called once
C14_Witness ==
    /\ last.op = "log" /\ last.on = Root /\ last.level = "info"
    /\ last.data = HelloEvent
    /\ last.began = <<ConsoleTransport("info")>>
    /\ Len(last.outputs) = 1
    /\ last.outputs[1].method = "info"

\* C15: addTransport(t) leaves the active transports in place and order and
\* puts t after them; on a dispatcher whose list was never set it first
\* installs one ConsoleTransport at threshold info, so the list becomes
\* [Console(info), t].
C15_AddAppendsAfterDefault ==
    last.op = "addTransport" =>
        IF last.before.null
          THEN /\ Len(Active) = 2
               /\ Active[1].kind = "console" /\ Active[1].level = "info"
               /\ Active[2] = last.arg
          ELSE Active = Append(last.before.items, last.arg)

\* a remote transport was added to a dispatcher never configured or used
C15_Witness ==
    /\ last.op = "addTransport"
    /\ last.before.null
    /\ last.arg.kind = "remote"
    /\ Active = <<DefaultConsole, last.arg>>

\* C16: configureLogger({transports: ts}) makes the active list exactly ts,
\* also when ts is empty; from an empty configured list a logging call
\* invokes no transport and installs no default console, and addTransport(t)
\* yields exactly [t].
C16_EmptyListStays ==
    [][/\ (last'.op = "configureLogger" /\ last'.given) =>
             transports' = Array(last'.arg)
       /\ (transports = Array(<<>>) /\ last'.op = "log") =>
             /\ transports' = Array(<<>>)
             /\ last'.invoked = <<>>
             /\ last'.outputs = <<>>
       /\ (transports = Array(<<>>) /\ last'.op = "addTransport") =>
             transports' = Array(<<last'.arg>>)]_vars

\* an error event was logged with the empty list configured: nothing was
\* invoked and the list is still empty
C16_Witness ==
    /\ last.op = "log"
    /\ last.level = "error"
    /\ last.began = <<>>
    /\ last.invoked = <<>>
    /\ transports = Array(<<>>)

\* the transports of a list the dispatcher created itself
DefaultsIn(items) == Cardinality({i \in 1 .. Len(items) : items[i].madeBy = "logger"})

\* the calls that may set the transport list
SettingCalls == {"log", "addTransport", "configureLogger"}

\* C17: the transport list is unset at load and stays unset until the first
\* logging call, addTransport or configureLogger; the first logging call on
\* an unset list is delivered to exactly one ConsoleTransport at threshold
\* info; once the list is set it is never unset and the dispatcher creates
\* no further default transport.
C17_LazyDefault ==
    /\ transports.null
    /\ [][/\ (transports.null /\ last'.op \notin SettingCalls) =>
                transports'.null
          /\ (transports.null /\ last'.op = "log") =>
                /\ Len(last'.invoked) = 1
                /\ last'.invoked[1].kind = "console"
                /\ last'.invoked[1].level = "info"
                /\ transports' = Array(last'.invoked)
          /\ transports.null => DefaultsIn(transports'.items) <= 1
          /\ ~transports.null =>
                /\ ~transports'.null
                /\ DefaultsIn(transports'.items) <= DefaultsIn(transports.items)]_vars

\* a scoped handle made the first logging call: the default console
\* transport, and nothing else, received it
C17_Witness ==
    /\ last.op = "log"
    /\ last.on # Root
    /\ last.invoked = <<DefaultConsole>>
    /\ Len(last.outputs) = 1
    /\ Active = <<DefaultConsole>>

\* C18 as stated: a logging call that returns invoked exactly the transports
\* of the list as it stood when the call began, whatever addTransport or
\* configureLogger did while it ran.
C18_DeliveredToListAtCallTime ==
    (last.op = "log" /\ ~last.threw) => last.invoked = last.began

\* the requests of the last call, and those among them still in flight
Posts == {i \in 1 .. Len(last.outputs) : last.outputs[i].sink = "fetch"}
InFlight == {i \in Posts : ~last.outputs[i].settled}
\* the positions of the list the call began with that hold a remote transport
RemotesBegan == {i \in 1 .. Len(last.began) : last.began[i].kind = "remote"}

\* C19: when a logging call through a RemoteTransport has returned, every
\* transport of the list, those after the remote one included, has been
\* invoked and every POST the call issued is still in flight, whether the
\* request later completes or never does.
C19_CallDoesNotWaitForPost ==
    (last.op = "log" /\ RemotesBegan # {} /\ ~last.threw) =>
        /\ last.invoked = last.began
        /\ InFlight = Posts

\* a call over [remote, spy] with a fetch that never settles returned: the
\* request is in flight and the spy after it has the event
C19_Witness ==
    /\ last.op = "log"
    /\ last.fetch = Pending
    /\ Len(last.began) = 2
    /\ last.began[1].kind = "remote" /\ last.began[2] = Spy
    /\ last.invoked = last.began
    /\ Len(last.outputs) = 2
    /\ last.outputs[1].sink = "fetch" /\ ~last.outputs[1].settled
    /\ last.outputs[2].sink = "custom"

\* the invocations of remote transports whose threshold the event passed,
\* and the requests issued
PassingRemotes ==
    {i \in 1 .. Len(last.invoked) :
        last.invoked[i].kind = "remote" /\ shouldLog(last.invoked[i].level, last.level)}
OnePostEach ==
    /\ Cardinality(Posts) = Cardinality(PassingRemotes)
    /\ \A i \in PassingRemotes :
          Cardinality({j \in Posts : last.outputs[j].by = last.invoked[i]})
            = Cardinality({k \in PassingRemotes : last.invoked[k] = last.invoked[i]})

\* C20 as stated: for each event that passes its threshold a RemoteTransport
\* has issued exactly one POST when the call returns.
C20_OnePostPerPassingEvent ==
    last.op = "log" => OnePostEach

\* C20, amended: for each event that passes its threshold and can be
\* serialised, on a host that has fetch, a RemoteTransport has issued exactly
\* one POST when the call returns, whatever the fetch does afterwards and
\* whatever earlier requests are still in flight; a request that completes,
\* with success or failure, is not issued again and changes no output of
\* any transport nor the transport list.
C20_OnePostPerSerialisableEvent ==
    /\ [](((last.op = "log" /\ last.fetch # "missing" /\ ~last.final.data.circular)
            => OnePostEach))
    /\ [][last'.op = "settled" =>
            /\ transports' = transports
            /\ Len(last'.outputs) = Len(last.outputs)
            /\ \A j \in 1 .. Len(last.outputs) :
                  \/ last'.outputs[j] = last.outputs[j]
                  \/ last'.outputs[j] = [last.outputs[j] EXCEPT !.settled = TRUE]]_vars

\* two requests of one call have failed and completed: the call's outputs
\* are still those two requests
C20_Witness ==
    /\ last.op = "settled"
    /\ last.fetch = "fails"
    /\ Cardinality(PassingRemotes) = 2
    /\ Len(last.outputs) = 2
    /\ InFlight = {}

\* C21 as stated: every POST goes to the URL its transport was constructed
\* with and its body has exactly the fields level, message, data and
\* timestamp, level being the severity of the method invoked and message
\* and data those of the delivered event.
C21_PostBodyHasTheFourFields ==
    last.op = "log" =>
        \A i \in Posts :
            LET o == last.outputs[i]
            IN  /\ o.method = "POST"
                /\ o.first = o.by.url
                /\ o.second.level = last.level
                /\ o.second.message = last.final.message
                /\ o.second.data = last.final.data
                /\ o.second.timestamp = Now
                /\ DOMAIN o.second.others = {}

\* C22 as stated: a transport's method for severity m is invoked only when m
\* reaches the transport's own level (an absent level taken as info), and
\* is invoked for every event that reaches it.
C22_DispatcherAppliesThreshold ==
    (last.op = "log" /\ ~last.threw) =>
        /\ \A i \in 1 .. Len(last.invoked) :
              shouldLog(last.invoked[i].level, last.level)
        /\ \A i \in 1 .. Len(last.began) :
              shouldLog(last.began[i].level, last.level) =>
                  \E j \in 1 .. Len(last.invoked) : last.invoked[j] = last.began[i]

\* no transport of the list the call began with changes the list
NoneReconfigures == \A i \in 1 .. Len(last.began) : last.began[i].reenters = "no"

\* C23: in a logging call at level m during which no transport throws or
\* reconfigures the dispatcher, the transport methods invoked are, in list
\* order, the method named m of each occurrence of a transport in the active
\* list, once per occurrence, and no other method.
C23_OneCallPerOccurrenceInOrder ==
    (last.op = "log" /\ ~last.threw /\ NoneReconfigures) =>
        /\ Len(last.calls) = Len(last.began)
        /\ \A i \in 1 .. Len(last.calls) :
              /\ last.calls[i].on = last.began[i]
              /\ last.calls[i].method = last.level

\* a debug event went through a list holding the same bridge twice: its
\* debug method was called twice
C23_Witness ==
    /\ last.op = "log" /\ ~last.threw
    /\ last.level = "debug"
    /\ Len(last.began) = 2
    /\ last.began[1] = last.began[2]
    /\ last.began[1].kind = "pino"
    /\ Len(last.calls) = 2
    /\ last.calls[2].method = "debug"

\* C24 as stated: a logging call through the root handle, or through a
\* handle made by child({}) whose mapping is still empty, delivers the
\* caller's event as it is, with no metadata key the event did not have.
C24_EmptyBoundLeavesEventAlone ==
    (/\ last.op = "log"
     /\ \/ last.on = Root
        \/ /\ handles[last.on].atBind = EmptyMeta
           /\ handles[last.on].metadata = EmptyMeta) =>
        /\ last.final = last.data
        /\ last.final.data.hasMetadata = last.data.data.hasMetadata

\* C25: when dispatch merges bound metadata into an event, the delivered
\* event has the caller's message, the caller's other top-level fields and
\* the caller's value for every key of data other than metadata.
C25_MergeKeepsTheRest ==
    (last.op = "log" /\ last.on # Root) =>
        /\ last.final.message = last.data.message
        /\ last.final.extra = last.data.extra
        /\ last.final.data.rest = last.data.data.rest
        /\ last.final.data.circular = last.data.data.circular

\* a scoped handle changed the metadata of an event that has another data
\* key, which was delivered with it
C25_Witness ==
    /\ last.op = "log" /\ last.on # Root
    /\ last.data.data.hasMetadata
    /\ last.final.data.metadata # last.data.data.metadata
    /\ last.data.data.rest = SomeData
    /\ last.final.data.rest = SomeData
    /\ Len(last.outputs) > 0

\* C26: after a logging call through any handle the event the caller passed
\* holds what it held before the call, its data and data.metadata included,
\* and so does the metadata mapping bound to the handle; what the
\* transports received from a scoped handle is another event.
C26_CallerEventNotMutated ==
    last.op = "log" =>
        /\ last.after = last.data
        /\ last.on # Root => handles[last.on].metadata = last.bound

\* a scoped handle delivered a merged event whose metadata differs from the
\* caller's, and the caller's event still holds its own metadata
C26_Witness ==
    /\ last.op = "log" /\ last.on # Root
    /\ last.data.data.hasMetadata
    /\ last.final.data.metadata # last.data.data.metadata
    /\ last.after = last.data
    /\ last.bound # EmptyMeta
    /\ handles[last.on].metadata = last.bound
    /\ Len(last.outputs) > 0

\* C27: an event emitted through any handle, a scoped handle made before
\* the list was configured or grown included, goes to the transport list of
\* the one dispatcher as it is when the event is emitted (the default set
\* if the list is still unset).
C27_HandlesShareTheDispatcher ==
    [][last'.op = "log" => last'.began = getTransports(transports).items]_vars

\* a scoped handle made while the list was unset emitted an event after
\* configureLogger and addTransport: both transports received it
C27_Witness ==
    /\ last.op = "log" /\ last.on # Root
    /\ last.began = <<Spy, ConsoleTransport("debug")>>
    /\ last.invoked = last.began
    /\ Len(last.outputs) = 2

\* the calls that configure the dispatcher
ConfiguringCalls == {"configureLogger", "addTransport"}

\* C28 as stated: only configureLogger and addTransport change the stored
\* transport list; logging calls, useLogging and child leave it as it was.
C28_OnlyConfigurationChangesList ==
    [][last'.op \notin ConfiguringCalls => transports' = transports]_vars

\* C28, amended: only configureLogger and addTransport change the stored
\* transport list, except that the first logging call on a dispatcher whose
\* list was never set installs the default set; every other logging call,
\* useLogging and child leave the list as it was.
C28_OnlyConfigurationOrFirstLogChangesList ==
    [][last'.op \notin ConfiguringCalls =>
          \/ transports' = transports
          \/ /\ transports.null
             /\ last'.op = "log"
             /\ transports' = Array(<<DefaultConsole>>)]_vars

\* a scoped handle logged over a configured list of two transports, which is
\* still the stored list
C28_Witness ==
    /\ last.op = "log" /\ last.on # Root
    /\ Len(last.began) = 2
    /\ last.invoked = last.began
    /\ transports = Array(last.began)

\* the invocations of transport t in the last call, and the backend calls t made
InvocationsOf(t) == {i \in 1 .. Len(last.invoked) : last.invoked[i] = t}
BackendCallsOf(t) ==
    {j \in 1 .. Len(last.outputs) : last.outputs[j].sink = "pino" /\ last.outputs[j].by = t}

\* C29: a PinoBridgeTransport whose threshold the event's level passes calls,
\* once per invocation, the backend method of that severity with arguments
\* (event, event.message) and no other backend method; when the level does
\* not pass it calls no backend method.
C29_PinoForwardsEventAndMessage ==
    last.op = "log" =>
        \A i \in 1 .. Len(last.invoked) :
            LET t == last.invoked[i]
            IN  (t.kind = "pino" /\ last.level \in t.backend) =>
                    IF shouldLog(t.level, last.level)
                      THEN /\ Cardinality(BackendCallsOf(t)) = Cardinality(InvocationsOf(t))
                           /\ \A j \in BackendCallsOf(t) :
                                 /\ last.outputs[j].method = last.level
                                 /\ last.outputs[j].first = last.final
                                 /\ last.outputs[j].second = last.final.message
                      ELSE BackendCallsOf(t) = {}

\* a warn event went to a bridge at threshold warn and to one at threshold
\* error: the backend of the first got warn(event, message), the other nothing
C29_Witness ==
    /\ last.op = "log"
    /\ last.level = "warn"
    /\ last.invoked = <<PinoBridgeTransport("warn"), PinoBridgeTransport("error")>>
    /\ Len(last.outputs) = 1
    /\ last.outputs[1].sink = "pino"
    /\ last.outputs[1].method = "warn"
    /\ last.outputs[1].by = PinoBridgeTransport("warn")

\* C30: logMessageSchema accepts a candidate exactly when its message is a
\* string, its data is a mapping and its data.metadata, if present, is a
\* mapping: a data that is a string, an array or absent is rejected, and
\* other keys inside data make no difference.
C30_SchemaAcceptsTheShape ==
    last.op = "schema" =>
        LET c == last.arg
        IN  /\ last.ret <=>
                  /\ c.message \notin {NoMessage, NumberMessage}
                  /\ c.data.type = "mapping"
                  /\ c.data.hasMetadata => c.data.metadataIs = "mapping"
            /\ c.data.type \in {"string", "array", "undefined"} => ~last.ret

\* a candidate with a string message and a data mapping with other keys was
\* rejected for its metadata, which is a string
C30_Witness ==
    /\ last.op = "schema"
    /\ last.arg.message = "Hello"
    /\ last.arg.data.type = "mapping"
    /\ last.arg.data.rest = SomeData
    /\ last.arg.data.hasMetadata
    /\ last.arg.data.metadataIs = "string"
    /\ ~last.ret

\* C31: the headers of every RemoteTransport POST are the merge of
\* {Content-Type: application/json} with the headers the transport was
\* given, the caller's value winning where both have the key: every caller
\* header is sent as given, nothing else is sent, and Content-Type is
\* application/json unless the caller gave its own.
C31_HeadersAreDefaultThenCallers ==
    last.op = "log" =>
        \A i \in Posts :
            LET sent == last.outputs[i].headers
                given == last.outputs[i].by.headers
            IN  /\ DOMAIN sent = DOMAIN given \cup {"Content-Type"}
                /\ \A k \in DOMAIN given : sent[k] = given[k]
                /\ "Content-Type" \notin DOMAIN given =>
                      sent["Content-Type"] = "application/json"

\* a POST went out for a transport that was given its own Content-Type and
\* an Authorization header
C31_Witness ==
    /\ last.op = "log"
    /\ \E i \in Posts :
          /\ DOMAIN last.outputs[i].by.headers = {"Content-Type", "Authorization"}
          /\ last.outputs[i].headers["Content-Type"] = "text/plain"
          /\ last.outputs[i].headers["Authorization"] = "Bearer token"

\* C32: configureLogger called with options that have no transports field
\* leaves the dispatcher as it was: the list is neither replaced nor
\* emptied, and a dispatcher that was never configured stays unset, so that
\* a logging call made next is delivered to the default console sink.
C32_ConfigureWithoutFieldChangesNothing ==
    [][/\ (last'.op = "configureLogger" /\ ~last'.given) =>
             transports' = transports
       /\ (/\ last.op = "configureLogger"
           /\ ~last.given
           /\ last'.op = "log") =>
             last'.began = IF transports.null THEN <<DefaultConsole>>
                           ELSE transports.items]_vars

\* configureLogger was called without a transports field on a dispatcher
\* holding two transports, which are still the active list
C32_Witness ==
    /\ last.op = "configureLogger"
    /\ ~last.given
    /\ ~transports.null
    /\ Len(transports.items) = 2
    /\ transports.items[1].kind = "remote"

\* C33: configureLogger installs a copy of the array it is given: the
\* active list then holds the array's items, the caller adding to or
\* removing from its array afterwards does not change the active list, and
\* addTransport (like a logging call) does not change the caller's array.
C33_ConfigureCopiesTheArray ==
    [][/\ last'.op = "configureLogger" =>
             /\ Active' = last'.arg
             /\ callerArray' = callerArray
       /\ last'.op \in {"push", "pop"} =>
             /\ callerArray' # callerArray
             /\ transports' = transports
       /\ last'.op \in {"addTransport", "log"} =>
             callerArray' = callerArray]_vars

\* the list was configured with the caller's array of one transport, the
\* caller then pushed a second one onto its array: the active list still
\* holds the one
C33_Witness ==
    /\ last.op = "push"
    /\ Len(callerArray) = 2
    /\ ~transports.null
    /\ transports.items = <<callerArray[1]>>
    /\ callerArray[1] = Spy

\* what the recorder holds of call c
EntriesOf(c) == {k \in 1 .. Len(journal.entries) : journal.entries[k].call = c}
InvokesOf(c) == SelectSeq(journal.entries, LAMBDA e : e.call = c /\ e.what = "invoke")

\* C34: of two logging calls made one after the other, everything done for
\* the first (each transport's method invoked, each POST issued) comes
\* before anything done for the second; a call in which no transport threw
\* has invoked every transport of the list it found, in order, and each
\* remote transport at or below the level has issued its POST, with the
\* call's event, as part of its invocation (given a fetch); the requests
\* complete only after they were issued, in any order.
C34_CallsDoNotInterleave ==
    LET E == journal.entries
    IN  /\ \A i, k \in 1 .. Len(E) : i < k => E[i].call <= E[k].call
        /\ \A c \in 1 .. Len(journal.calls) :
              ~journal.calls[c].threw =>
                  /\ Len(InvokesOf(c)) = Len(journal.calls[c].began)
                  /\ \A n \in 1 .. Len(InvokesOf(c)) :
                        InvokesOf(c)[n].by = journal.calls[c].began[n]
        /\ \A i \in 1 .. Len(E) :
              (/\ E[i].what = "invoke"
               /\ E[i].by.kind = "remote"
               /\ shouldLog(E[i].by.level, "info")
               /\ journal.calls[E[i].call].fetch # "missing") =>
                  /\ i < Len(E)
                  /\ E[i + 1].what = "fetch"
                  /\ E[i + 1].call = E[i].call
                  /\ E[i + 1].by = E[i].by
                  /\ E[i + 1].message = E[i].message
        /\ Len(journal.completions) = Cardinality({k \in 1 .. Len(E) : E[k].done})
        /\ \A k \in 1 .. Len(E) : E[k].done => E[k].what = "fetch"

\* two calls went through a remote transport followed by a spy, the first
\* with one event and the second with another; both POSTs were issued, in
\* call order, and the second request completed before the first
C34_Witness ==
    /\ Len(journal.calls) = 2
    /\ journal.calls[1].began = <<RemoteTransport(LogUrl, "info"), Spy>>
    /\ journal.calls[2].began = journal.calls[1].began
    /\ Len(journal.entries) = 8
    /\ journal.entries[2].what = "fetch"
    /\ journal.entries[2].message = "Hello"
    /\ journal.entries[6].what = "fetch"
    /\ journal.entries[6].message = "Bye"
    /\ journal.completions = <<2, 1>>

\* C35: the console is probed once, at load (safeConsole is then what the
\* probe of the host's console gives), and the result never changes and is
\* used for every later event: every console call of a later event goes to
\* the object found at load, through a method it had then, whatever the
\* global console has become; so on a host that had no console at load no
\* ConsoleTransport ever emits anything.
C35_ConsoleProbedOnceAtLoad ==
    /\ safeConsole = safeConsoleProbe(globalConsole)
    /\ [][/\ safeConsole' = safeConsole
          /\ last'.op = "log" =>
                /\ last'.console = "atLoad"
                /\ \A i \in 1 .. Len(last'.outputs) :
                      last'.outputs[i].sink = "console" =>
                          last'.outputs[i].method \in safeConsole]_vars

\* on a host without a console at load, a full console was put in place
\* later and an event at level error went to a console sink at threshold
\* debug: nothing came out
C35_Witness ==
    /\ last.op = "log"
    /\ last.level = "error"
    /\ safeConsole = {}
    /\ globalConsole = Later(FullConsole)
    /\ last.began = <<ConsoleTransport("debug")>>
    /\ last.invoked = last.began
    /\ last.outputs = <<>>

====
